---------------------------- MODULE Spec2Model ----------------------------
(***************************************************************************)
(* Model of dependency_visualizer.py: the command-line gate of the Maven   *)
(* dependency visualizer.  DependencyVisualizer.run() parses the command   *)
(* line with argparse, validates the resulting namespace, and either       *)
(* prints the validation errors and exits 1, or prints the parameters and  *)
(* two acknowledgment lines and returns (exit status 0).                   *)
(*                                                                         *)
(* A Python str is a sequence of one-character strings; None is the        *)
(* one-element sequence <<"None">>, which is no str since "None" is not a  *)
(* character.  A printed line is a pair <<kind, payload>>.                 *)
(*                                                                         *)
(* The runs modelled are those the environment leaves alone: no signal is  *)
(* delivered to the process and writing to stdout and stderr succeeds.     *)
(***************************************************************************)
EXTENDS Naturals, Sequences, FiniteSets

VARIABLES pc, args, extras, errors, stdout, stderr, exitcode

vars == <<pc, args, extras, errors, stdout, stderr, exitcode>>

(***************************************************************************)
(* Bounds of the input domain.                                             *)
(***************************************************************************)
MaxPkgLen == 2

MaxVerLen == 2

MaxStemLen == 1

SeqsUpTo(S, n) == UNION {[1..k -> S] : k \in 0..n}

None == <<"None">>

(***************************************************************************)
(* Defaults of the option schema (add_argument(..., default=...)).         *)
(***************************************************************************)
DefaultUrl == <<"https://repo1.maven.org/maven2/">>

DefaultOutput ==
    <<"d","e","p","e","n","d","e","n","c","y","_","g","r","a","p","h",".","p","n","g">>

(***************************************************************************)
(* Values the command line can carry for each option.                      *)
(***************************************************************************)
ExamplePackage ==
    <<"c","o","m",".","e","x","a","m","p","l","e",":","m","y","-","a","p","p">>

ExampleVersion == <<"1",".","0",".","0">>

Packages == SeqsUpTo({"g", ":"}, MaxPkgLen) \cup {ExamplePackage}

Versions == SeqsUpTo({" ", "1"}, MaxVerLen) \cup {<<"\t">>, <<" ", "\t">>, ExampleVersion}

Urls == {DefaultUrl, <<"u">>}

Files == {<<>>, <<"x">>}

Tails ==
    { <<>>, <<" ">>, <<".">>, <<".","t","x","t">>, <<".","p","n","g","x">>,
      <<".","p","n","g">>, <<".","P","N","G">>, <<".","P","n","g">>, <<"p","n","g">>,
      <<".","j","p","g">>, <<".","J","p","G">>,
      <<".","j","p","e","g">>, <<".","J","P","E","G">>, <<".","j","p","e">>,
      <<".","s","v","g">>, <<".","S","V","G">>, <<"s","v","g">> }

Stems == SeqsUpTo({"a"}, MaxStemLen)

Outputs == {s \o t : s \in Stems, t \in Tails} \cup {DefaultOutput}

(***************************************************************************)
(* str methods used by validate_arguments.                                 *)
(***************************************************************************)
UpperChars == <<"P", "N", "G", "J", "E", "S", "V", "X", "T">>

LowerChars == <<"p", "n", "g", "j", "e", "s", "v", "x", "t">>

lower_char(c) ==
    IF \E i \in DOMAIN UpperChars : UpperChars[i] = c
    THEN LowerChars[CHOOSE i \in DOMAIN UpperChars : UpperChars[i] = c]
    ELSE c

lower(s) == [i \in DOMAIN s |-> lower_char(s[i])]

endswith(s, suffix) ==
    /\ Len(s) >= Len(suffix)
    /\ SubSeq(s, Len(s) - Len(suffix) + 1, Len(s)) = suffix

endswith_any(s, suffixes) == \E suffix \in suffixes : endswith(s, suffix)

Whitespace == {" ", "\t"}

isspace(s) == Len(s) > 0 /\ \A i \in DOMAIN s : s[i] \in Whitespace

contains(s, c) == \E i \in DOMAIN s : s[i] = c

\* Python truth value of an optional str: None and "" are false.
truthy(s) == s # None /\ s # <<>>

ImageExtensions ==
    { <<".","p","n","g">>, <<".","j","p","g">>, <<".","j","p","e","g">>, <<".","s","v","g">> }

(***************************************************************************)
(* validate_arguments: the messages, and one operator per rule group.      *)
(***************************************************************************)
ErrPackage == "package name must have the format groupId:artifactId"

ErrVersion == "package version must not be empty"

ErrFileRequired == "test mode requires a file path"

ErrFileNotAllowed == "test repository file is only allowed in test mode"

ErrOutputEmpty == "output file name must not be empty"

ErrOutputExt == "output file must have an image extension"

check_package(a) ==
    IF ~contains(a.package, ":") THEN <<ErrPackage>> ELSE <<>>

\* check_version without the isspace() test.
check_version_no_isspace(a) ==
    IF a.version = <<>> THEN <<ErrVersion>> ELSE <<>>

check_version(a) ==
    IF a.version = <<>> \/ isspace(a.version) THEN <<ErrVersion>> ELSE <<>>

check_test_mode(a) ==
    (IF a.test_mode /\ ~truthy(a.file) THEN <<ErrFileRequired>> ELSE <<>>)
    \o (IF ~a.test_mode /\ truthy(a.file) THEN <<ErrFileNotAllowed>> ELSE <<>>)

\* check_output comparing the suffix without lower().
check_output_case_sensitive(a) ==
    IF a.output = <<>> THEN <<ErrOutputEmpty>>
    ELSE IF ~endswith_any(a.output, ImageExtensions) THEN <<ErrOutputExt>>
    ELSE <<>>

\* check_output with a second "if" in place of the "elif".
check_output_no_elif(a) ==
    (IF a.output = <<>> THEN <<ErrOutputEmpty>> ELSE <<>>)
    \o (IF ~endswith_any(lower(a.output), ImageExtensions) THEN <<ErrOutputExt>> ELSE <<>>)

check_output(a) ==
    IF a.output = <<>> THEN <<ErrOutputEmpty>>
    ELSE IF ~endswith_any(lower(a.output), ImageExtensions) THEN <<ErrOutputExt>>
    ELSE <<>>

validate_arguments(a) ==
    check_package(a) \o check_version(a) \o check_test_mode(a) \o check_output(a)

(***************************************************************************)
(* print_parameters: the lines it prints, in order.                        *)
(***************************************************************************)
test_mode_status(a) == IF a.test_mode THEN <<"enabled">> ELSE <<"disabled">>

\* print_parameters testing only args.file before the test file line.
print_parameters_file_only(a) ==
    << <<"header", <<>>>>,
       <<"package", a.package>>,
       <<"version", a.version>>,
       <<"url", a.url>>,
       <<"test_mode", test_mode_status(a)>> >>
    \o (IF truthy(a.file) THEN << <<"file", a.file>> >> ELSE <<>>)
    \o << <<"output", a.output>>,
          <<"footer", <<>>>> >>

print_parameters(a) ==
    << <<"header", <<>>>>,
       <<"package", a.package>>,
       <<"version", a.version>>,
       <<"url", a.url>>,
       <<"test_mode", test_mode_status(a)>> >>
    \o (IF a.test_mode /\ truthy(a.file) THEN << <<"file", a.file>> >> ELSE <<>>)
    \o << <<"output", a.output>>,
          <<"footer", <<>>>> >>

(***************************************************************************)
(* The except clauses of run(): what is printed and the exit status for an *)
(* exception leaving the try block.  SystemExit is a BaseException that    *)
(* none of the three clauses catches: it leaves run() with its own code.   *)
(***************************************************************************)
except_clause(exc) ==
    IF exc.type = "ArgumentError"
    THEN [lines |-> << <<"argument_error", <<>>>> >>, code |-> 1]
    ELSE IF exc.type = "KeyboardInterrupt"
    THEN [lines |-> << <<"interrupted", <<>>>> >>, code |-> 1]
    ELSE IF exc.type = "Exception"
    THEN [lines |-> << <<"unexpected_error", <<>>>> >>, code |-> 1]
    ELSE [lines |-> <<>>, code |-> exc.code]

Raise(exc) ==
    /\ stdout' = stdout \o except_clause(exc).lines
    /\ exitcode' = <<except_clause(exc).code>>
    /\ pc' = "exit"

\* ArgumentParser.error(): usage and message on stderr, then sys.exit(2).
ParserError(message) ==
    /\ stderr' = stderr \o << <<"usage", <<>>>>, <<"error", <<message>>>> >>
    /\ Raise([type |-> "SystemExit", code |-> 2])
    /\ UNCHANGED <<args, extras, errors>>

(***************************************************************************)
(* Initial state: the namespace holds the defaults of the option schema.   *)
(***************************************************************************)
Namespace ==
    [package |-> None, version |-> None, url |-> DefaultUrl,
     test_mode |-> FALSE, file |-> None, output |-> DefaultOutput]

Init ==
    /\ pc = "parse"
    /\ args = Namespace
    /\ extras = FALSE
    /\ errors = <<>>
    /\ stdout = <<>>
    /\ stderr = <<>>
    /\ exitcode = <<>>

(***************************************************************************)
(* parse_arguments: parse_args() consumes the command line option by       *)
(* option; a repeated option overwrites the earlier value.                 *)
(***************************************************************************)
ParsePackage ==
    /\ pc = "parse"
    /\ \E v \in Packages : args' = [args EXCEPT !.package = v]
    /\ UNCHANGED <<pc, extras, errors, stdout, stderr, exitcode>>

ParseVersion ==
    /\ pc = "parse"
    /\ \E v \in Versions : args' = [args EXCEPT !.version = v]
    /\ UNCHANGED <<pc, extras, errors, stdout, stderr, exitcode>>

ParseUrl ==
    /\ pc = "parse"
    /\ \E v \in Urls : args' = [args EXCEPT !.url = v]
    /\ UNCHANGED <<pc, extras, errors, stdout, stderr, exitcode>>

ParseTestMode ==
    /\ pc = "parse"
    /\ args' = [args EXCEPT !.test_mode = TRUE]
    /\ UNCHANGED <<pc, extras, errors, stdout, stderr, exitcode>>

ParseFile ==
    /\ pc = "parse"
    /\ \E v \in Files : args' = [args EXCEPT !.file = v]
    /\ UNCHANGED <<pc, extras, errors, stdout, stderr, exitcode>>

ParseOutput ==
    /\ pc = "parse"
    /\ \E v \in Outputs : args' = [args EXCEPT !.output = v]
    /\ UNCHANGED <<pc, extras, errors, stdout, stderr, exitcode>>

\* An unknown option or a stray positional token is collected and reported
\* once the whole command line has been read.
ParseUnrecognized ==
    /\ pc = "parse"
    /\ extras' = TRUE
    /\ UNCHANGED <<pc, args, errors, stdout, stderr, exitcode>>

\* A value-taking option that is last or followed by another option.
ParseMissingValue ==
    /\ pc = "parse"
    /\ ParserError("expected one argument")

\* -h/--help: the help text on stdout, then sys.exit(0).
ParseHelp ==
    /\ pc = "parse"
    /\ stdout' = stdout \o << <<"help", <<>>>> >>
    /\ exitcode' = <<0>>
    /\ pc' = "exit"
    /\ UNCHANGED <<args, extras, errors, stderr>>

\* End of the command line: required options, then unrecognized tokens.
ParseEnd ==
    /\ pc = "parse"
    /\ IF args.package = None \/ args.version = None
       THEN ParserError("the following arguments are required")
       ELSE IF extras
       THEN ParserError("unrecognized arguments")
       ELSE /\ pc' = "validate"
            /\ UNCHANGED <<args, extras, errors, stdout, stderr, exitcode>>

(***************************************************************************)
(* run(): validation, error listing, report, acknowledgment, return.       *)
(***************************************************************************)
Validate ==
    /\ pc = "validate"
    /\ errors' = validate_arguments(args)
    /\ pc' = IF errors' # <<>> THEN "print_errors" ELSE "report"
    /\ UNCHANGED <<args, extras, stdout, stderr, exitcode>>

\* The error listing with sys.exit() called without a status.
PrintErrors_exit_zero ==
    /\ pc = "print_errors"
    /\ stdout' = stdout \o << <<"errors_header", <<>>>> >>
                        \o [i \in DOMAIN errors |-> <<"bullet", <<errors[i]>>>>]
    /\ exitcode' = <<0>>
    /\ pc' = "exit"
    /\ UNCHANGED <<args, extras, errors, stderr>>

\* The error listing without the sys.exit(1): run() goes on to the report.
PrintErrors_no_exit ==
    /\ pc = "print_errors"
    /\ stdout' = stdout \o << <<"errors_header", <<>>>> >>
                        \o [i \in DOMAIN errors |-> <<"bullet", <<errors[i]>>>>]
    /\ pc' = "report"
    /\ UNCHANGED <<args, extras, errors, stderr, exitcode>>

\* Lines 110-114: the header, one bullet per error, then sys.exit(1), which
\* raises SystemExit inside the try block.
PrintErrors ==
    /\ pc = "print_errors"
    /\ LET listing == << <<"errors_header", <<>>>> >>
                          \o [i \in DOMAIN errors |-> <<"bullet", <<errors[i]>>>>]
           exc == except_clause([type |-> "SystemExit", code |-> 1])
       IN  /\ stdout' = stdout \o listing \o exc.lines
           /\ exitcode' = <<exc.code>>
           /\ pc' = "exit"
    /\ UNCHANGED <<args, extras, errors, stderr>>

Report ==
    /\ pc = "report"
    /\ stdout' = stdout \o print_parameters(args)
    /\ pc' = "ack"
    /\ UNCHANGED <<args, extras, errors, stderr, exitcode>>

Acknowledge ==
    /\ pc = "ack"
    /\ stdout' = stdout \o << <<"ack_loaded", <<>>>>, <<"ack_ready", <<>>>> >>
    /\ pc' = "return"
    /\ UNCHANGED <<args, extras, errors, stderr, exitcode>>

\* run() and main() return normally: the interpreter exits with status 0.
Return ==
    /\ pc = "return"
    /\ exitcode' = <<0>>
    /\ pc' = "exit"
    /\ UNCHANGED <<args, extras, errors, stdout, stderr>>

Next ==
    \/ ParsePackage
    \/ ParseVersion
    \/ ParseUrl
    \/ ParseTestMode
    \/ ParseFile
    \/ ParseOutput
    \/ ParseUnrecognized
    \/ ParseMissingValue
    \/ ParseHelp
    \/ ParseEnd
    \/ Validate
    \/ PrintErrors
    \/ Report
    \/ Acknowledge
    \/ Return

Spec == Init /\ [][Next]_vars


(***************************************************************************)
(* print_parameters as a function of any Configuration: the initial state  *)
(* draws the namespace from every combination of option values, validated  *)
(* or not, and the only step is the call.                                  *)
(***************************************************************************)
Configurations ==
    [package : Packages, version : Versions, url : Urls,
     test_mode : BOOLEAN, file : Files \cup {None}, output : Outputs]

InitReport ==
    /\ pc = "report"
    /\ args \in Configurations
    /\ extras = FALSE
    /\ errors = <<>>
    /\ stdout = <<>>
    /\ stderr = <<>>
    /\ exitcode = <<>>

NextReport == Report

SpecReport == InitReport /\ [][NextReport]_vars

(***************************************************************************)
(* Vocabulary of the properties.                                           *)
(***************************************************************************)
Range(s) == {s[i] : i \in DOMAIN s}

Kinds(out) == [i \in DOMAIN out |-> out[i][1]]

HelpShown == stdout # <<>> /\ stdout[1][1] = "help"

\* parse_arguments returned a namespace to run().
ParsedOK == pc # "parse" /\ stderr = <<>> /\ ~HelpShown

\* parse_arguments ended in ArgumentParser.error().
ParseFailed == pc = "exit" /\ stderr # <<>>

\* validate_arguments has returned; errors holds its result.
ValidateDone == ParsedOK /\ pc # "validate"

CasePairs == {<<UpperChars[i], LowerChars[i]>> : i \in DOMAIN UpperChars}

SameLetter(c, d) == c = d \/ <<c, d>> \in CasePairs \/ <<d, c>> \in CasePairs

EndsWithIgnoreCase(s, suffix) ==
    /\ Len(s) >= Len(suffix)
    /\ \A i \in DOMAIN suffix : SameLetter(s[Len(s) - Len(suffix) + i], suffix[i])

\* The suffixes as the rule names them, without the dot.
BareSuffixes ==
    { <<"p","n","g">>, <<"j","p","g">>, <<"j","p","e","g">>, <<"s","v","g">> }

DottedSuffixes == {<<".">> \o x : x \in BareSuffixes}

EndsInBareSuffix(s) == \E x \in BareSuffixes : EndsWithIgnoreCase(s, x)

HasImageExtension(s) == \E x \in DottedSuffixes : EndsWithIgnoreCase(s, x)

AllWhitespace(s) == \A i \in DOMAIN s : s[i] \in Whitespace

RuleOrder ==
    <<ErrPackage, ErrVersion, ErrFileRequired, ErrFileNotAllowed, ErrOutputEmpty, ErrOutputExt>>

Rank(m) == CHOOSE r \in DOMAIN RuleOrder : RuleOrder[r] = m

\* The six rules of validation as the specification words them.
RuleViolated(r, a) ==
    IF r = 1 THEN ~contains(a.package, ":")
    ELSE IF r = 2 THEN AllWhitespace(a.version)
    ELSE IF r = 3 THEN a.test_mode /\ a.file = None
    ELSE IF r = 4 THEN ~a.test_mode /\ a.file # None
    ELSE IF r = 5 THEN a.output = <<>>
    ELSE ~HasImageExtension(a.output)

Bullets(es) == [i \in DOMAIN es |-> <<"bullet", <<es[i]>>>>]

ReportKinds == {"header", "package", "version", "url", "test_mode", "file", "output", "footer"}

AckKinds == {"ack_loaded", "ack_ready"}

(***************************************************************************)
(* C1: every parse failure ends the process with exit status 1.            *)
(* Refuted: ArgumentParser.error() calls sys.exit(2) and SystemExit passes *)
(* the except clauses of run().                                            *)
(***************************************************************************)
C1_ParseFailureExitsOne == ParseFailed => exitcode = <<1>>

(***************************************************************************)
(* C2: the list returned by validate holds the message of every one of the *)
(* six rules that the configuration violates.  Refuted.                    *)
(***************************************************************************)
C2_AllViolatedRulesReported ==
    ValidateDone =>
        \A r \in DOMAIN RuleOrder : RuleViolated(r, args) => RuleOrder[r] \in Range(errors)

C4_TestFileErrors ==
    ValidateDone =>
        /\ ErrFileRequired \in Range(errors) <=> (args.test_mode /\ args.file = None)
        /\ ErrFileNotAllowed \in Range(errors) <=> (~args.test_mode /\ args.file # None)

(***************************************************************************)
(* C5: a configuration that passes validation has testMode true exactly    *)
(* when testFile is present, and a non-empty outputFile with a recognized  *)
(* image extension.  Refuted through the empty --file value of C4.         *)
(***************************************************************************)
C5_ValidatedInvariants ==
    (ValidateDone /\ errors = <<>>) =>
        /\ args.test_mode <=> args.file # None
        /\ args.output # <<>>
        /\ HasImageExtension(args.output)

(***************************************************************************)
(* C6: after a successful parse the process ends with exit status 0 if     *)
(* validate returns the empty list and with 1 otherwise; the arguments     *)
(* -p com.example:my-app -v 1.0.0 validate without error and exit 0.       *)
(***************************************************************************)
ExampleNamespace ==
    [Namespace EXCEPT !.package = ExamplePackage, !.version = ExampleVersion]

C6_ExitStatus ==
    /\ (pc = "exit" /\ ParsedOK) =>
          /\ exitcode = <<0>> <=> validate_arguments(args) = <<>>
          /\ validate_arguments(args) # <<>> => exitcode = <<1>>
    /\ (ValidateDone /\ args = ExampleNamespace) => errors = <<>>
    /\ (pc = "exit" /\ ParsedOK /\ args = ExampleNamespace) => exitcode = <<0>>

C6_Witness ==
    /\ pc = "exit"
    /\ ParsedOK
    /\ args = ExampleNamespace
    /\ exitcode = <<0>>

(***************************************************************************)
(* C7: nothing is printed before validation; when validate returns errors  *)
(* the output is the error header and one bullet per error and neither     *)
(* the report nor the acknowledgments are ever printed; report and         *)
(* acknowledgment lines appear only after validate returned the empty      *)
(* list, the acknowledgments after the whole report; nothing is printed    *)
(* once the process has ended.                                             *)
(***************************************************************************)
C7_StepOrder ==
    /\ [](/\ pc \in {"parse", "validate", "print_errors"} => stdout = <<>>
          /\ (ValidateDone /\ errors # <<>> /\ pc = "exit") =>
                stdout = << <<"errors_header", <<>>>> >> \o Bullets(validate_arguments(args))
          /\ (\E i \in DOMAIN stdout : stdout[i][1] \in ReportKinds \cup AckKinds) =>
                /\ ValidateDone
                /\ validate_arguments(args) = <<>>
                /\ pc \in {"ack", "return", "exit"}
          /\ (ValidateDone /\ errors = <<>> /\ pc = "report") => stdout = <<>>
          /\ (ValidateDone /\ errors = <<>> /\ pc = "ack") =>
                /\ stdout # <<>>
                /\ Range(Kinds(stdout)) \subseteq ReportKinds
          /\ (ValidateDone /\ errors = <<>> /\ pc \in {"return", "exit"}) =>
                /\ Len(stdout) >= 3
                /\ Range(Kinds(SubSeq(stdout, 1, Len(stdout) - 2))) \subseteq ReportKinds
                /\ Kinds(SubSeq(stdout, Len(stdout) - 1, Len(stdout)))
                      = <<"ack_loaded", "ack_ready">>
          /\ pc = "exit" <=> exitcode # <<>>)
    /\ [][pc = "exit" => (stdout' = stdout /\ stderr' = stderr /\ pc' = "exit")]_vars

C7_Witness ==
    /\ pc = "exit"
    /\ ValidateDone
    /\ Len(errors) >= 2
    /\ stdout = << <<"errors_header", <<>>>> >> \o Bullets(errors)

(***************************************************************************)
(* C8: report prints header, package, version, url, test-mode status, the  *)
(* test file when testMode is true and testFile is set, outputFile and     *)
(* footer, in that order; the status is "enabled" exactly when testMode is *)
(* true; report leaves the configuration unchanged.                        *)
(***************************************************************************)
TestFileSet == args.file # None /\ args.file # <<>>

C9_VersionError ==
    ValidateDone => (ErrVersion \in Range(errors) <=> AllWhitespace(args.version))

C9_Witness ==
    /\ ValidateDone
    /\ args.version = <<" ", "\t">>
    /\ ErrVersion \in Range(errors)

(***************************************************************************)
(* C10: the list returned by validate holds only rule messages, in rule    *)
(* order and without duplicates, at most four of them; never both          *)
(* test-file errors and never both output errors; validate leaves the      *)
(* configuration unchanged.                                                *)
(***************************************************************************)
C10_ErrorListShape ==
    /\ [](ValidateDone =>
            /\ Range(errors) \subseteq Range(RuleOrder)
            /\ \A i, j \in DOMAIN errors : i < j => Rank(errors[i]) < Rank(errors[j])
            /\ Len(errors) <= 4
            /\ ~(ErrFileRequired \in Range(errors) /\ ErrFileNotAllowed \in Range(errors))
            /\ ~(ErrOutputEmpty \in Range(errors) /\ ErrOutputExt \in Range(errors)))
    /\ [][pc = "validate" => args' = args]_vars

C10_Witness ==
    /\ ValidateDone
    /\ Len(errors) = 4
    /\ errors[3] = ErrFileNotAllowed
    /\ errors[4] = ErrOutputEmpty

=============================================================================
